---- MODULE Spec2Model ----
(***************************************************************************)
(* Model of CalcZ.py: admittance / impedance from the time series of the   *)
(* total charge (Wiener-Khinchin autocorrelation, window, piecewise        *)
(* Lagrange interpolation, Filon-Lagrange Fourier-Laplace transform).      *)
(*                                                                         *)
(* Numbers.  A float64 is modelled by an exact rational <<num, den>> in    *)
(* lowest terms with den > 0; every value that is not finite (inf, -inf,   *)
(* nan: what numpy produces for a division by zero) is the single value    *)
(* NonFinite == <<0, 0>>.  Complex values whose computation needs exp()    *)
(* are kept symbolically: a DFT slot is the sequence of the terms that     *)
(* were accumulated into it, in accumulation order.                        *)
(*                                                                         *)
(* Arrays.  Every array or list lives in `heap`, a sequence of buffers; a  *)
(* reference is [buf |-> index into heap, len |-> number of elements], so  *)
(* that a numpy basic slice a[:k] is a reference to the same buffer.       *)
(***************************************************************************)
EXTENDS Integers, Sequences, FiniteSets, TLC

\* ------------------------------------------------------------------ bounds
\* Largest number of samples of an array handed directly to a function.
MaxN == 5
\* Signal samples handed directly to a function are drawn from 0 .. MaxSig.
MaxSig == 2
\* Largest number of data rows of total_charges.out.
MaxRows == 10
\* Charges (in units of e) of the data rows are drawn from 0 .. MaxCharge.
MaxCharge == 1
\* Number of frequencies of the grid (100 in the source, line 169).
nfreq == 2

\* ------------------------------------------------------- float64 arithmetic
Abs(x) == IF x < 0 THEN -x ELSE x

RECURSIVE Gcd(_, _)
Gcd(a, b) == IF b = 0 THEN a ELSE Gcd(b, a % b)

NonFinite == <<0, 0>>

Rat(n, d) ==
    IF d = 0 THEN NonFinite
    ELSE LET g == Gcd(Abs(n), Abs(d))
             s == IF d < 0 THEN -1 ELSE 1
         IN  <<(s * n) \div g, (s * d) \div g>>

Num(n) == <<n, 1>>
Nums(s) == [i \in 1 .. Len(s) |-> Num(s[i])]
Zero == <<0, 1>>
One == <<1, 1>>

IsFinite(r) == r[2] # 0

RAdd(x, y) ==
    IF IsFinite(x) /\ IsFinite(y) THEN Rat(x[1] * y[2] + y[1] * x[2], x[2] * y[2])
    ELSE NonFinite

RNeg(x) == IF IsFinite(x) THEN <<-x[1], x[2]>> ELSE NonFinite

RSub(x, y) == RAdd(x, RNeg(y))

RMul(x, y) ==
    IF IsFinite(x) /\ IsFinite(y) THEN Rat(x[1] * y[1], x[2] * y[2])
    ELSE NonFinite

\* numpy division: a finite value divided by zero is inf or nan, never an
\* exception.
RDiv(x, y) ==
    IF IsFinite(x) /\ IsFinite(y) THEN Rat(x[1] * y[2], x[2] * y[1])
    ELSE NonFinite

RLess(x, y) == IsFinite(x) /\ IsFinite(y) /\ x[1] * y[2] < y[1] * x[2]

\* The sum of the first n elements of s.
RECURSIVE RSumTo(_, _)
RSumTo(s, n) == IF n = 0 THEN Zero ELSE RAdd(RSumTo(s, n - 1), s[n])

RSum(s) == RSumTo(s, Len(s))

RECURSIVE IPow(_, _)
IPow(b, k) == IF k = 0 THEN 1 ELSE b * IPow(b, k - 1)

\* ------------------------------------------------ numpy.poly1d, as lagrange uses it
\* A polynomial is its coefficient sequence, highest power first.
RECURSIVE TrimZeros(_)
TrimZeros(c) ==
    IF Len(c) > 1 /\ c[1] = Zero THEN TrimZeros(Tail(c)) ELSE c

\* poly1d(c): leading zero coefficients are dropped (nan and inf are not zero).
poly1d(c) == TrimZeros(c)

\* numpy.polymul: the convolution of the coefficient sequences.
polymul(p, q) ==
    [i \in 1 .. (Len(p) + Len(q) - 1) |->
        RSum([j \in 1 .. Len(p) |->
                IF i - j + 1 \in 1 .. Len(q) THEN RMul(p[j], q[i - j + 1]) ELSE Zero])]

PadLeft(p, n) == [i \in 1 .. n |-> IF i <= n - Len(p) THEN Zero ELSE p[i - (n - Len(p))]]

\* numpy.polyadd: the shorter sequence is padded with leading zeros.
polyadd(p, q) ==
    LET n == IF Len(p) > Len(q) THEN Len(p) ELSE Len(q)
    IN  [i \in 1 .. n |-> RAdd(PadLeft(p, n)[i], PadLeft(q, n)[i])]

\* poly1d.__truediv__ by a scalar: poly1d(self.coeffs / other).
polydiv(p, fac) == poly1d([i \in 1 .. Len(p) |-> RDiv(p[i], fac)])

\* The inner loop of scipy.interpolate.lagrange:
\*   for k in range(M): if k == j: continue
\*       fac = x[j]-x[k];  pt *= poly1d([1.0, -x[k]])/fac
RECURSIVE LagrangeBasis(_, _, _, _)
LagrangeBasis(pt, x, j, k) ==
    IF k > Len(x) THEN pt
    ELSE IF k = j THEN LagrangeBasis(pt, x, j, k + 1)
    ELSE LET fac == RSub(x[j], x[k])
         IN  LagrangeBasis(poly1d(polymul(pt, polydiv(<<One, RNeg(x[k])>>, fac))),
                           x, j, k + 1)

\* The outer loop: p = poly1d(0.0); for j: pt = poly1d(w[j]); ...; p += pt
RECURSIVE LagrangeSum(_, _, _, _)
LagrangeSum(p, x, w, j) ==
    IF j > Len(x) THEN p
    ELSE LagrangeSum(poly1d(polyadd(p, LagrangeBasis(poly1d(<<w[j]>>), x, j, 1))),
                     x, w, j + 1)

\* scipy.interpolate.lagrange(x, w): a poly1d, whose .coef has as many entries
\* as the polynomial's degree plus one.
lagrange(x, w) == LagrangeSum(poly1d(<<Zero>>), x, w, 1)

\* ------------------------------------------------------------------ state
VARIABLES
    heap,   \* the buffers of all arrays and lists allocated so far
    pc,     \* the position of the program
    exc,    \* the exception that ended the run, or "none"
    Data,   \* the charge column of total_charges.out, in units of e
    glob,   \* the module-level names bound to arrays (references)
    loc,    \* the locals of AdmFromQ and of the LagrangeInterpol call it makes
    call,   \* the most recent function call that returned
    files,  \* the output files written so far: name -> rows
    workers \* the iterations of FilonLagrange's prange loop, one per frequency

vars == <<heap, pc, exc, Data, glob, loc, call, files, workers>>

\* ------------------------------------------------------------------ arrays
NoRef == [buf |-> 0, len |-> 0]

Ref(b, n) == [buf |-> b, len |-> n]

\* The elements a reference sees, in a given heap.
ValIn(h, r) == IF r.buf = 0 THEN <<>> ELSE SubSeq(h[r.buf], 1, r.len)

Val(r) == ValIn(heap, r)

\* The reference of an array allocated next in heap h, holding v.
NewRef(h, v) == Ref(Len(h) + 1, Len(v))

Snapshot(h, refs) == [i \in 1 .. Len(refs) |-> ValIn(h, refs[i])]

\* Python's s[lo:hi] for 0 <= lo: the bounds are clamped to the length.
PySlice(s, lo, hi) ==
    LET h == IF hi > Len(s) THEN Len(s) ELSE hi
    IN  IF lo >= h THEN <<>> ELSE SubSeq(s, lo + 1, h)

NoCall == [fn |-> "none", args |-> <<>>, before |-> <<>>, after |-> <<>>,
           ret |-> <<>>, nheap |-> 0]

NoLoc == [Time |-> NoRef, QACF |-> NoRef, freq |-> NoRef, coeffs |-> NoRef,
          Coeffs |-> NoRef, DFT |-> NoRef, Adm |-> NoRef, ipp |-> 0, ip |-> 0,
          caller |-> "none", nheap |-> 0, before |-> <<>>,
          li_nheap |-> 0, li_before |-> <<>>]

NoGlob == [Charges |-> NoRef, Time |-> NoRef, QACF |-> NoRef, redTime |-> NoRef,
           QACF_window |-> NoRef, freq |-> NoRef, Adm |-> NoRef, Imp |-> NoRef]

\* --------------------------------------------------------- LagrangeInterpol
ZeroRow == <<Zero, Zero, Zero>>

\* np.zeros((rows, 3))
ZeroRows(rows) == [i \in 1 .. rows |-> ZeroRow]

\* An allocation of one row per fitted segment only.
CoeffRowsPerSegment(n) == (n - 1) \div 2

\* Line 112: the number of rows AdmFromQ allocates for n time points.
CoeffRows(n) == n \div 2

\* Line 86, coeffs[ipp,:] = p.coef: numpy assigns a (3,) value as it is,
\* broadcasts a (1,) value to the three columns, and refuses a (2,) value.
CanAssignRow(coef) == Len(coef) \in {1, 3}

AssignRow(coef) == IF Len(coef) = 3 THEN coef ELSE <<coef[1], coef[1], coef[1]>>

\* Lines 83-85 for the loop variable ip (0-based, as in the source).
FitAt(Timev, Signalv, ip) ==
    lagrange(PySlice(Timev, ip - 1, ip + 2), PySlice(Signalv, ip - 1, ip + 2))

\* Line 82: range(1, len(Time)-1, 2) still has the value ip.
InterpolInRange(Timev, ip) == ip < Len(Timev) - 1

\* Line 82: the step of the loop variable.
InterpolStride == 2

\* ------------------------------------------------------------ FilonLagrange
\* A term whose upper bound is the interior sample of the segment.
TermInterior(ff, Timev, coeffsv, it, ip) ==
    [ff |-> ff, t1 |-> Timev[it + 1], t2 |-> Timev[it + 2],
     a |-> coeffsv[ip + 1][1], b |-> coeffsv[ip + 1][2], c |-> coeffsv[ip + 1][3],
     ip |-> ip, it |-> it]

\* Lines 46-55: the term added to DFT[ifreq] for the segment starting at the
\* 0-based time index it, with coefficient row ip (0-based).  The complex value
\* is kept symbolically; ip and it record which row and samples were read.
Term(ff, Timev, coeffsv, it, ip) ==
    [ff |-> ff, t1 |-> Timev[it + 1], t2 |-> Timev[it + 3],
     a |-> coeffsv[ip + 1][1], b |-> coeffsv[ip + 1][2], c |-> coeffsv[ip + 1][3],
     ip |-> ip, it |-> it]

\* Line 45: range(0, len(Time)-2, 2) still has the value it.
FilonInRange(Timev, it) == it < Len(Timev) - 2

\* Lines 44-56 for one frequency, run sequentially: DFT[ifreq] += term.
RECURSIVE FilonLoop(_, _, _, _, _, _)
FilonLoop(acc, ff, Timev, coeffsv, it, ip) ==
    IF FilonInRange(Timev, it)
    THEN FilonLoop(Append(acc, Term(ff, Timev, coeffsv, it, ip)),
                   ff, Timev, coeffsv, it + 2, ip + 1)
    ELSE acc

\* Lines 43-58 run sequentially: the contents of DFT on return.
FilonLagrange(DFTv, freqv, Timev, coeffsv) ==
    [k \in 1 .. Len(freqv) |-> FilonLoop(DFTv[k], freqv[k], Timev, coeffsv, 0, 0)]

\* np.zeros(n, dtype=complex): a complex zero is the empty sum.
ComplexZeros(n) == [k \in 1 .. n |-> <<>>]

\* A symbolic DFT value that is exactly zero in float64: every term was
\* computed from a coefficient row of zeros (each term is linear in a, b, c).
DftIsZero(d) == \A i \in 1 .. Len(d) : d[i].a = Zero /\ d[i].b = Zero /\ d[i].c = Zero

DftIsFinite(d) ==
    \A i \in 1 .. Len(d) : IsFinite(d[i].a) /\ IsFinite(d[i].b) /\ IsFinite(d[i].c)

\* ----------------------------------------------------------------- AdmFromQ
\* Line 117: beta * ((freq[i]**2)*DFT[i] + 1j * freq[i] * QACF[0]), symbolically.
AdmValue(ff, d, q0) == [ff |-> ff, dft |-> d, q0 |-> q0]

\* The admittance is exactly zero when both summands are.
AdmIsZero(y) == DftIsZero(y.dft) /\ y.q0 = Zero

AdmIsFinite(y) == DftIsFinite(y.dft) /\ IsFinite(y.q0)

\* Lines 112-113: allocate coeffs and enter LagrangeInterpol.  (np.zeros raises
\* ValueError for a negative dimension.)
AdmFromQ_Enter ==
    /\ pc = "AdmFromQ"
    /\ IF CoeffRows(loc.Time.len) < 0
       THEN /\ pc' = "raised" /\ exc' = "ValueError"
            /\ UNCHANGED <<heap, loc>>
       ELSE LET cv == ZeroRows(CoeffRows(loc.Time.len))
                c == NewRef(heap, cv)
                h == Append(heap, cv)
            IN  /\ heap' = h
                /\ loc' = [loc EXCEPT !.coeffs = c, !.ipp = 0, !.ip = 1,
                                      !.li_nheap = Len(h),
                                      !.li_before = Snapshot(h, <<c, loc.Time, loc.QACF>>)]
                /\ pc' = "LagrangeInterpol"
                /\ UNCHANGED exc
    /\ UNCHANGED <<Data, glob, call, files, workers>>

\* Lines 82-87: one iteration of the loop of LagrangeInterpol.
LagrangeInterpol_Step ==
    /\ pc = "LagrangeInterpol"
    /\ InterpolInRange(Val(loc.Time), loc.ip)
    /\ \E coef \in {FitAt(Val(loc.Time), Val(loc.QACF), loc.ip)} :
       LET row == loc.ipp + 1
       IN  IF loc.ipp >= loc.coeffs.len
           THEN /\ pc' = "raised" /\ exc' = "IndexError"
                /\ UNCHANGED <<heap, loc>>
           ELSE IF ~CanAssignRow(coef)
           THEN /\ pc' = "raised" /\ exc' = "ValueError"
                /\ UNCHANGED <<heap, loc>>
           ELSE /\ heap' = [heap EXCEPT ![loc.coeffs.buf][row] = AssignRow(coef)]
                /\ loc' = [loc EXCEPT !.ipp = @ + 1, !.ip = @ + InterpolStride]
                /\ UNCHANGED <<pc, exc>>
    /\ UNCHANGED <<Data, glob, call, files, workers>>

\* A function that returned the array it was given instead of a copy.
np_array_alias(h, r) == r

\* Line 89, np.array(coeffs): the reference of the copy, allocated next in h.
np_array(h, r) == NewRef(h, ValIn(h, r))

\* Line 89: return np.array(coeffs), a copy.
LagrangeInterpol_Return ==
    /\ pc = "LagrangeInterpol"
    /\ ~InterpolInRange(Val(loc.Time), loc.ip)
    /\ LET cv == Val(loc.coeffs)
           r == np_array(heap, loc.coeffs)
           h == Append(heap, cv)
           args == <<loc.coeffs, loc.Time, loc.QACF>>
       IN  /\ heap' = h
           /\ loc' = [loc EXCEPT !.Coeffs = r]
           /\ call' = [fn |-> "LagrangeInterpol", args |-> args,
                       before |-> loc.li_before, after |-> Snapshot(h, args),
                       ret |-> <<r>>, nheap |-> loc.li_nheap]
    /\ pc' = "FilonLagrange"
    /\ UNCHANGED <<exc, Data, glob, files, workers>>

\* Line 114: DFT = FilonLagrange(np.zeros(len(freq), dtype=complex), freq, Time,
\* Coeffs), the prange loop taken in index order.  FilonLagrange returns the
\* array it was given.
FilonLagrange_Call ==
    /\ pc = "FilonLagrange"
    /\ LET z == ComplexZeros(loc.freq.len)
           d == NewRef(heap, z)
           h0 == Append(heap, z)
           args == <<d, loc.freq, loc.Time, loc.Coeffs>>
           h == [h0 EXCEPT ![d.buf] =
                    FilonLagrange(z, Val(loc.freq), Val(loc.Time), Val(loc.Coeffs))]
       IN  /\ heap' = h
           /\ loc' = [loc EXCEPT !.DFT = d]
           /\ call' = [fn |-> "FilonLagrange", args |-> args,
                       before |-> Snapshot(h0, args), after |-> Snapshot(h, args),
                       ret |-> <<d>>, nheap |-> Len(h0)]
    /\ pc' = "AdmLoop"
    /\ UNCHANGED <<exc, Data, glob, files, workers>>

\* Lines 115-117: Adm = np.zeros(...); for i: Adm[i] = ...  QACF[0] of an
\* empty QACF raises IndexError in the first iteration.
AdmFromQ_Loop ==
    /\ pc = "AdmLoop"
    /\ IF loc.freq.len > 0 /\ loc.QACF.len = 0
       THEN /\ pc' = "raised" /\ exc' = "IndexError"
            /\ heap' = Append(heap, ComplexZeros(loc.DFT.len))
            /\ UNCHANGED loc
       ELSE LET av == [i \in 1 .. loc.freq.len |->
                          AdmValue(Val(loc.freq)[i], Val(loc.DFT)[i], Val(loc.QACF)[1])]
            IN  /\ heap' = Append(heap, av)
                /\ loc' = [loc EXCEPT !.Adm = NewRef(heap, av)]
                /\ pc' = "AdmReturn"
                /\ UNCHANGED exc
    /\ UNCHANGED <<Data, glob, call, files, workers>>

\* Line 118: return Adm, to line 206 of the script or to a direct caller.
AdmFromQ_Return ==
    /\ pc = "AdmReturn"
    /\ LET args == <<loc.Time, loc.QACF, loc.freq>>
       IN  call' = [fn |-> "AdmFromQ", args |-> args, before |-> loc.before,
                    after |-> Snapshot(heap, args), ret |-> <<loc.Adm>>,
                    nheap |-> loc.nheap]
    /\ IF loc.caller = "script"
       THEN /\ glob' = [glob EXCEPT !.Adm = loc.Adm]
            /\ pc' = "Imp"
       ELSE /\ pc' = "returned"
            /\ UNCHANGED glob
    /\ UNCHANGED <<heap, exc, Data, loc, files, workers>>

AdmFromQ_Next ==
    \/ AdmFromQ_Enter
    \/ LagrangeInterpol_Step
    \/ LagrangeInterpol_Return
    \/ FilonLagrange_Call
    \/ AdmFromQ_Loop
    \/ AdmFromQ_Return

\* -------------------------------------------------------------------- WKACF
\* Lines 133-136 in exact arithmetic: the inverse transform of |fft(x - mean)|^2
\* is the circular autocorrelation of x - mean; its first half, divided by the
\* number of samples.
Centered(x) ==
    LET mean == RDiv(RSum(x), Num(Len(x)))
    IN  [j \in 1 .. Len(x) |-> RSub(x[j], mean)]

CircularCorr(y, k) ==
    RSum([j \in 1 .. Len(y) |-> RMul(y[j], y[((j - 1 + k) % Len(y)) + 1])])

WKACF_ACF(x) ==
    LET y == Centered(x)
    IN  [k \in 1 .. (Len(x) \div 2) |-> RDiv(CircularCorr(y, k - 1), Num(Len(x)))]

\* Line 137: time[:len(time)//2], a slice of the caller's array (same buffer).
WKACF_time(t) == Ref(t.buf, t.len \div 2)

\* A call WKACF(x, time) in the current heap: the heap after it, what it
\* returns, and the record of the call.
WKACF(x, time) ==
    LET acf == WKACF_ACF(Val(x))
        a == NewRef(heap, acf)
        h == Append(heap, acf)
        r == <<a, WKACF_time(time)>>
    IN  [heap |-> h, ret |-> r,
         call |-> [fn |-> "WKACF", args |-> <<x, time>>,
                   before |-> Snapshot(heap, <<x, time>>),
                   after |-> Snapshot(h, <<x, time>>), ret |-> r,
                   nheap |-> Len(heap)]]

\* ------------------------------------------------------------------- Window
\* exp() of the window, line 159, is kept exact by the model's choice of units:
\* exp(ep*tau) is ExpEpTau and exp(ep*t) is ExpEpStep^t for a time t of t steps
\* (the source has ep = 18.9e9 / s, tau = 0.5e-9 s and steps of 1e-15 s).
ExpEpTau == 2
ExpEpStep == 2

\* Line 159: W = (exp(-ep*tau) + 1) / (exp(ep*(t - tau)) + 1).
WindowWeight(t) ==
    RDiv(RAdd(Rat(1, ExpEpTau), One),
         RAdd(Rat(IPow(ExpEpStep, t[1]), ExpEpTau), One))

\* Lines 157-161: a new list.
WindowValues(ACFv, timev) ==
    [i \in 1 .. Len(timev) |-> RMul(ACFv[i], WindowWeight(timev[i]))]

\* A call Window(ACF, time) in the current heap.
Window(ACF, time) ==
    LET w == WindowValues(Val(ACF), Val(time))
        r == NewRef(heap, w)
        h == Append(heap, w)
    IN  [heap |-> h, ret |-> <<r>>,
         call |-> [fn |-> "Window", args |-> <<ACF, time>>,
                   before |-> Snapshot(heap, <<ACF, time>>),
                   after |-> Snapshot(h, <<ACF, time>>), ret |-> <<r>>,
                   nheap |-> Len(heap)]]

\* ------------------------------------------------------------ frequency grid
\* A frequency w is kept as the pair <<P, r>> with w = 2*pi / P^(1/r): P is the
\* r-th power of the period.
Freq(P, r) == <<P, r>>

RECURSIVE RPow(_, _)
RPow(x, k) == IF k = 0 THEN One ELSE RMul(x, RPow(x, k - 1))

\* Line 201: hif = 2*pi/(redTime[1]*3), as a period.
hifPeriod(redTimev) == RMul(redTimev[2], Num(3))

\* Line 202: lof = 2*pi/redTime[-1], as a period.
lofPeriod(redTimev) == redTimev[Len(redTimev)]

\* Line 203: np.logspace(log10(lof), log10(hif), n); the k-th of n values is
\* lof^(1-k/(n-1)) * hif^(k/(n-1)), k = 0 .. n-1 (lof alone when n = 1).
logspace(lofP, hifP, n) ==
    LET r == IF n = 1 THEN 1 ELSE n - 1
    IN  [k \in 1 .. n |-> Freq(RMul(RPow(lofP, r - (k - 1)), RPow(hifP, k - 1)), r)]

\* w > 0: the period is finite and positive.
FreqPositive(f) == RLess(Zero, f[1])

\* w1 < w2, for two frequencies of one grid.
FreqLess(f1, f2) == f1[2] = f2[2] /\ RLess(f2[1], f1[1])

\* ---------------------------------------------------------------- impedance
\* Line 207, 1/Adm by numpy: inf or nan where Adm is zero or not finite.
ImpValue(y) == [recip |-> y, finite |-> AdmIsFinite(y) /\ ~AdmIsZero(y)]

\* --------------------------------------------------------------- the script
\* np.column_stack and np.savetxt: the rows written to a file.
Rows(cols) == [i \in 1 .. Len(cols[1]) |-> [c \in 1 .. Len(cols) |-> cols[c][i]]]

\* Lines 181-187.  np.loadtxt gives a 2-d array only for two or more data
\* rows, so Data[:,1] raises IndexError for fewer.
Script_Load ==
    /\ pc = "start"
    /\ IF Len(Data) < 2
       THEN /\ pc' = "raised" /\ exc' = "IndexError"
            /\ UNCHANGED <<heap, glob>>
       ELSE LET cv == Nums(Data)
                tv == [i \in 1 .. Len(Data) |-> Num(i - 1)]
            IN  /\ heap' = <<cv, tv>>
                /\ glob' = [glob EXCEPT !.Charges = Ref(1, Len(cv)),
                                        !.Time = Ref(2, Len(tv))]
                /\ pc' = "loaded"
                /\ UNCHANGED exc
    /\ UNCHANGED <<Data, loc, call, files, workers>>

\* Lines 190-192.
Script_QACF ==
    /\ pc = "loaded"
    /\ \E w \in {WKACF(glob.Charges, glob.Time)} :
           /\ heap' = w.heap
           /\ call' = w.call
           /\ glob' = [glob EXCEPT !.QACF = w.ret[1], !.redTime = w.ret[2]]
           /\ files' = files @@
                ("QACF.out" :> Rows(<<ValIn(w.heap, w.ret[2]), ValIn(w.heap, w.ret[1])>>))
    /\ pc' = "QACF"
    /\ UNCHANGED <<exc, Data, loc, workers>>

\* Lines 194-198.
Script_Window ==
    /\ pc = "QACF"
    /\ \E w \in {Window(glob.QACF, glob.redTime)} :
           /\ heap' = w.heap
           /\ call' = w.call
           /\ glob' = [glob EXCEPT !.QACF_window = w.ret[1]]
           /\ files' = files @@
                ("QACF_window.out" :> Rows(<<Val(glob.redTime), ValIn(w.heap, w.ret[1])>>))
    /\ pc' = "windowed"
    /\ UNCHANGED <<exc, Data, loc, workers>>

\* Lines 201-203.  redTime[1] raises IndexError when redTime has one element.
Script_Freq ==
    /\ pc = "windowed"
    /\ IF glob.redTime.len < 2
       THEN /\ pc' = "raised" /\ exc' = "IndexError"
            /\ UNCHANGED <<heap, glob>>
       ELSE LET fv == logspace(lofPeriod(Val(glob.redTime)),
                               hifPeriod(Val(glob.redTime)), nfreq)
            IN  /\ heap' = Append(heap, fv)
                /\ glob' = [glob EXCEPT !.freq = NewRef(heap, fv)]
                /\ pc' = "freq"
                /\ UNCHANGED exc
    /\ UNCHANGED <<Data, loc, call, files, workers>>

\* Line 206: the call AdmFromQ(redTime, QACF_window, freq).
Script_AdmFromQ ==
    /\ pc = "freq"
    /\ loc' = [NoLoc EXCEPT !.Time = glob.redTime, !.QACF = glob.QACF_window,
                            !.freq = glob.freq, !.caller = "script",
                            !.nheap = Len(heap),
                            !.before = Snapshot(heap, <<glob.redTime, glob.QACF_window,
                                                        glob.freq>>)]
    /\ pc' = "AdmFromQ"
    /\ UNCHANGED <<heap, exc, Data, glob, call, files, workers>>

\* Lines 207-209: Imp = 1/Adm.  numpy warns about a division by zero and goes on.
Script_Imp ==
    /\ pc = "Imp"
    /\ LET iv == [i \in 1 .. glob.Adm.len |-> ImpValue(Val(glob.Adm)[i])]
       IN  /\ heap' = Append(heap, iv)
           /\ glob' = [glob EXCEPT !.Imp = NewRef(heap, iv)]
    /\ pc' = "computed"
    /\ UNCHANGED <<exc, Data, loc, call, files, workers>>

\* Lines 211-212.
Script_SaveAdm ==
    /\ pc = "computed"
    /\ files' = files @@ ("Admittance.out" :> Rows(<<Val(glob.freq), Val(glob.Adm)>>))
    /\ pc' = "Admittance.out"
    /\ UNCHANGED <<heap, exc, Data, glob, loc, call, workers>>

\* Lines 213-214.
Script_SaveImp ==
    /\ pc = "Admittance.out"
    /\ files' = files @@ ("Impedance.out" :> Rows(<<Val(glob.freq), Val(glob.Imp)>>))
    /\ pc' = "Impedance.out"
    /\ UNCHANGED <<heap, exc, Data, glob, loc, call, workers>>

\* Line 216: print('Done.').
Script_Done ==
    /\ pc = "Impedance.out"
    /\ pc' = "done"
    /\ UNCHANGED <<heap, exc, Data, glob, loc, call, files, workers>>

\* The state after line 164, for every table of at most MaxRows data rows.
Init ==
    /\ Data \in UNION {[1 .. n -> 0 .. MaxCharge] : n \in 0 .. MaxRows}
    /\ heap = <<>>
    /\ pc = "start"
    /\ exc = "none"
    /\ glob = NoGlob
    /\ loc = NoLoc
    /\ call = NoCall
    /\ files = <<>>
    /\ workers = <<>>

Next ==
    \/ Script_Load
    \/ Script_QACF
    \/ Script_Window
    \/ Script_Freq
    \/ Script_AdmFromQ
    \/ AdmFromQ_Next
    \/ Script_Imp
    \/ Script_SaveAdm
    \/ Script_SaveImp
    \/ Script_Done

Spec == Init /\ [][Next]_vars

\* ---------------------------------------- functions called with given arrays
\* Time arrays of n samples: spacing 1, except that the spacing after sample
\* k (if k > 0) is d: 0 repeats a time value, 2 leaves a gap.  The irregular
\* spacing is put into the first segment.
TimeShape(n, k, d) ==
    [i \in 1 .. n |-> Num((i - 1) + (IF k > 0 /\ i > k THEN d - 1 ELSE 0))]

TimeArrays(n) ==
    {TimeShape(n, 0, 1)} \cup {TimeShape(n, k, d) : k \in (1 .. 2) \cap (1 .. (n - 1)), d \in {0, 2}}

SignalArrays(n) == {Nums(s) : s \in [1 .. n -> 0 .. MaxSig]}

FreqArray == [k \in 1 .. nfreq |-> Freq(Num(k), 1)]

InitCallAdmFromQ ==
    \E n \in 0 .. MaxN : \E tv \in TimeArrays(n) : \E qv \in SignalArrays(n) :
        LET t == Ref(1, n)
            q == Ref(2, n)
            f == Ref(3, nfreq)
            h == <<tv, qv, FreqArray>>
        IN  /\ heap = h
            /\ loc = [NoLoc EXCEPT !.Time = t, !.QACF = q, !.freq = f,
                                   !.caller = "direct", !.nheap = 3,
                                   !.before = Snapshot(h, <<t, q, f>>)]
            /\ pc = "AdmFromQ"

\* A direct call WKACF(x, time) with arrays of equal length.
InitCallWKACF ==
    \E n \in 1 .. MaxN : \E xv \in SignalArrays(n) :
        /\ heap = <<xv, TimeShape(n, 0, 1)>>
        /\ loc = [NoLoc EXCEPT !.QACF = Ref(1, n), !.Time = Ref(2, n),
                               !.caller = "direct"]
        /\ pc = "WKACF"

\* A direct call Window(ACF, time) with arrays of equal length.
InitCallWindow ==
    \E n \in 0 .. MaxN : \E av \in SignalArrays(n) :
        /\ heap = <<av, TimeShape(n, 0, 1)>>
        /\ loc = [NoLoc EXCEPT !.QACF = Ref(1, n), !.Time = Ref(2, n),
                               !.caller = "direct"]
        /\ pc = "Window"

\* Lines 120-138, called directly with the arrays loc.QACF (as x) and loc.Time.
Call_WKACF ==
    /\ pc = "WKACF"
    /\ \E w \in {WKACF(loc.QACF, loc.Time)} :
           /\ heap' = w.heap
           /\ call' = w.call
    /\ pc' = "returned"
    /\ UNCHANGED <<exc, Data, glob, loc, files, workers>>

\* Lines 140-161, called directly with the arrays loc.QACF (as ACF) and loc.Time.
Call_Window ==
    /\ pc = "Window"
    /\ \E w \in {Window(loc.QACF, loc.Time)} :
           /\ heap' = w.heap
           /\ call' = w.call
    /\ pc' = "returned"
    /\ UNCHANGED <<exc, Data, glob, loc, files, workers>>

InitCall ==
    /\ InitCallAdmFromQ \/ InitCallWKACF \/ InitCallWindow
    /\ exc = "none"
    /\ Data = <<>>
    /\ glob = NoGlob
    /\ call = NoCall
    /\ files = <<>>
    /\ workers = <<>>

NextCall ==
    \/ AdmFromQ_Next
    \/ Call_WKACF
    \/ Call_Window

SpecCall == InitCall /\ [][NextCall]_vars

\* ------------------------------------------- FilonLagrange, parallel=True
\* Line 43, prange(len(freq)): every iteration ifreq is a worker of its own,
\* with its own ip and it; the workers' steps interleave in any order.
\* DFT[ifreq] += term is a read of the slot followed by a write of it.

\* All iterations accumulating into one slot.
WriteSlotShared(ifreq) == 1

\* Line 52: the slot of DFT the iteration ifreq (1-based) accumulates into.
WriteSlot(ifreq) == ifreq

NewWorker == [pc |-> "read", ip |-> 0, it |-> 0, tmp |-> <<>>]

\* Line 114 up to the start of the prange loop.
FilonLagrange_Start ==
    /\ pc = "FilonLagrange"
    /\ LET z == ComplexZeros(loc.freq.len)
       IN  /\ heap' = Append(heap, z)
           /\ loc' = [loc EXCEPT !.DFT = NewRef(heap, z), !.li_nheap = Len(heap) + 1,
                                 !.li_before = Snapshot(Append(heap, z),
                                     <<NewRef(heap, z), loc.freq, loc.Time, loc.Coeffs>>)]
    /\ workers' = [k \in 1 .. loc.freq.len |-> NewWorker]
    /\ pc' = "prange"
    /\ UNCHANGED <<exc, Data, glob, call, files>>

\* Lines 44-51 and the read of DFT[ifreq] in line 52, or the end of the loop.
Worker_Read(k) ==
    /\ pc = "prange"
    /\ workers[k].pc = "read"
    /\ IF FilonInRange(Val(loc.Time), workers[k].it)
       THEN workers' = [workers EXCEPT ![k].pc = "write",
                                       ![k].tmp = Val(loc.DFT)[WriteSlot(k)]]
       ELSE workers' = [workers EXCEPT ![k].pc = "done"]
    /\ UNCHANGED <<heap, pc, exc, Data, glob, loc, call, files>>

\* The write of DFT[ifreq] in line 52, and line 56.
Worker_Write(k) ==
    /\ pc = "prange"
    /\ workers[k].pc = "write"
    /\ LET w == workers[k]
           t == Term(Val(loc.freq)[k], Val(loc.Time), Val(loc.Coeffs), w.it, w.ip)
       IN  /\ heap' = [heap EXCEPT ![loc.DFT.buf][WriteSlot(k)] = Append(w.tmp, t)]
           /\ workers' = [workers EXCEPT ![k].pc = "read", ![k].ip = @ + 1,
                                         ![k].it = @ + 2, ![k].tmp = <<>>]
    /\ UNCHANGED <<pc, exc, Data, glob, loc, call, files>>

\* Line 58, after every iteration has ended: return DFT.
FilonLagrange_Join ==
    /\ pc = "prange"
    /\ \A k \in 1 .. Len(workers) : workers[k].pc = "done"
    /\ LET args == <<loc.DFT, loc.freq, loc.Time, loc.Coeffs>>
       IN  call' = [fn |-> "FilonLagrange", args |-> args, before |-> loc.li_before,
                    after |-> Snapshot(heap, args), ret |-> <<loc.DFT>>,
                    nheap |-> loc.li_nheap]
    /\ pc' = "AdmLoop"
    /\ UNCHANGED <<heap, exc, Data, glob, loc, files, workers>>

\* Direct calls of AdmFromQ on evenly spaced times.
InitPar ==
    /\ \E n \in 0 .. MaxN : \E qv \in [1 .. n -> {0, MaxSig}] :
          LET t == Ref(1, n)
              q == Ref(2, n)
              f == Ref(3, nfreq)
              h == <<TimeShape(n, 0, 1), Nums(qv), FreqArray>>
          IN  /\ heap = h
              /\ loc = [NoLoc EXCEPT !.Time = t, !.QACF = q, !.freq = f,
                                     !.caller = "direct", !.nheap = 3,
                                     !.before = Snapshot(h, <<t, q, f>>)]
    /\ pc = "AdmFromQ"
    /\ exc = "none"
    /\ Data = <<>>
    /\ glob = NoGlob
    /\ call = NoCall
    /\ files = <<>>
    /\ workers = <<>>

NextPar ==
    \/ AdmFromQ_Enter
    \/ LagrangeInterpol_Step
    \/ LagrangeInterpol_Return
    \/ FilonLagrange_Start
    \/ \E k \in 1 .. Len(workers) : Worker_Read(k)
    \/ \E k \in 1 .. Len(workers) : Worker_Write(k)
    \/ FilonLagrange_Join
    \/ AdmFromQ_Loop
    \/ AdmFromQ_Return

SpecPar == InitPar /\ [][NextPar]_vars

\* ------------------------------------------------------------- properties
\* The number of segments of n samples: (n-1)//2.
Segments(n) == (n - 1) \div 2

\* The samples 2i, 2i+1, 2i+2 (0-based) of an array.
Triple(v, i) == <<v[2 * i + 1], v[2 * i + 2], v[2 * i + 3]>>

Distinct3(x) == x[1] # x[2] /\ x[1] # x[3] /\ x[2] # x[3]

\* a*t^2 + b*t + c for the row <<a, b, c>>.
PolyEval(row, t) == RAdd(RAdd(RMul(row[1], RMul(t, t)), RMul(row[2], t)), row[3])

\* The row line 86 stores for segment i of the arrays AdmFromQ was given.
FittedRow(i) == AssignRow(lagrange(Triple(Val(loc.Time), i), Triple(Val(loc.QACF), i)))

\* C1 as stated: for n >= 3 the array LagrangeInterpol returns to AdmFromQ has
\* exactly (n-1)//2 rows, row i fitted through samples 2i, 2i+1, 2i+2, and no
\* other rows.
CxC1 ==
    (loc.Coeffs # NoRef /\ loc.Time.len >= 3) =>
        /\ loc.Coeffs.len = Segments(loc.Time.len)
        /\ \A i \in 0 .. (Segments(loc.Time.len) - 1) :
               Val(loc.Coeffs)[i + 1] = FittedRow(i)

\* C1, amended: the array AdmFromQ allocates and LagrangeInterpol returns has
\* n//2 rows; for n >= 3 its first (n-1)//2 rows are the rows stored for the
\* triples (x[2i], x[2i+1], x[2i+2]), and when n is even there is one more row,
\* the last, which was never assigned and is all zeros.  The fitted rows are compared at
\* the position where LagrangeInterpol has just returned (pc = "FilonLagrange").
ThmC1 ==
    /\ loc.coeffs # NoRef => loc.coeffs.len = loc.Time.len \div 2
    /\ (loc.Coeffs # NoRef /\ loc.Time.len >= 3) =>
          LET n == loc.Time.len
              C == Val(loc.Coeffs)
          IN  /\ Len(C) = n \div 2
              /\ Len(C) = Segments(n) + (IF n % 2 = 0 THEN 1 ELSE 0)
              /\ loc.ipp = Segments(n)
              /\ pc = "FilonLagrange" =>
                     \A i \in 0 .. (Segments(n) - 1) : C[i + 1] = FittedRow(i)
              /\ \A r \in (Segments(n) + 1) .. Len(C) : C[r] = ZeroRow

\* An even n: one fitted row and one more row of zeros.
WitC1 ==
    /\ loc.Coeffs # NoRef
    /\ loc.Time.len = 4
    /\ Len(Val(loc.Coeffs)) = 2
    /\ Val(loc.Coeffs)[1] # ZeroRow
    /\ Val(loc.Coeffs)[2] = ZeroRow

\* C2 as stated: for every segment with three distinct time values and every
\* choice of signal values, a row is stored, and a*t^2 + b*t + c at each of the
\* three time values is the signal value.
CxC2 ==
    /\ (pc = "raised" /\ exc = "ValueError") =>
           ~Distinct3(Triple(Val(loc.Time), loc.ipp))
    /\ loc.coeffs # NoRef =>
          \A i \in 0 .. (loc.ipp - 1) :
              Distinct3(Triple(Val(loc.Time), i)) =>
                  \A m \in 1 .. 3 :
                      PolyEval(Val(loc.coeffs)[i + 1], Triple(Val(loc.Time), i)[m])
                          = Triple(Val(loc.QACF), i)[m]

\* C4 as stated: no stored row holds a value that is not finite, and
\* LagrangeInterpol does not return when the time values of a segment coincide.
CxC4 ==
    loc.coeffs # NoRef =>
        /\ \A i \in 1 .. loc.coeffs.len : \A m \in 1 .. 3 :
               IsFinite(Val(loc.coeffs)[i][m])
        /\ loc.Coeffs # NoRef =>
               \A i \in 0 .. (Segments(loc.Time.len) - 1) :
                   Distinct3(Triple(Val(loc.Time), i))

\* C5 as stated: three samples give one segment and one row, and AdmFromQ
\* produces no admittance for fewer than three samples.
CxC5 ==
    /\ (loc.Coeffs # NoRef /\ loc.Time.len = 3) =>
           loc.ipp = 1 /\ Len(Val(loc.Coeffs)) = 1
    /\ (loc.caller # "none" /\ loc.Time.len < 3) => loc.Adm = NoRef

\* An array returned by the last call that was allocated during the call.
Fresh(r) == r.buf > call.nheap

\* C8 as stated: after a call of any of the five functions every argument
\* holds the values it held before, and every array returned was allocated by
\* the call.
CxC8 ==
    call.fn # "none" =>
        /\ call.after = call.before
        /\ \A i \in 1 .. Len(call.ret) : Fresh(call.ret[i])

\* C8, amended: AdmFromQ and Window leave their arguments as they were and
\* return a newly allocated array.  LagrangeInterpol leaves Time and Signal as
\* they were and returns a newly allocated array, but it has stored the rows in
\* its argument coeffs, which holds what is returned.  FilonLagrange leaves
\* freq, Time and coeffs as they were, accumulates into its argument DFT and
\* returns that same array.  WKACF leaves x and time as they were and returns a
\* newly allocated ACF, and a reduced time that is a slice of its argument time.
ThmC8 ==
    /\ call.fn \in {"AdmFromQ", "Window"} =>
           /\ call.after = call.before
           /\ \A i \in 1 .. Len(call.ret) : Fresh(call.ret[i])
    /\ call.fn = "LagrangeInterpol" =>
           /\ call.after[2] = call.before[2]
           /\ call.after[3] = call.before[3]
           /\ Fresh(call.ret[1])
           /\ call.ret[1].buf # call.args[1].buf
           /\ call.after[1] = Val(call.ret[1])
    /\ call.fn = "FilonLagrange" =>
           /\ \A i \in 2 .. 4 : call.after[i] = call.before[i]
           /\ call.ret[1] = call.args[1]
    /\ call.fn = "WKACF" =>
           /\ call.after = call.before
           /\ Fresh(call.ret[1])
           /\ call.ret[2].buf = call.args[2].buf

\* LagrangeInterpol has returned and the argument coeffs holds other values
\* than before the call.
WitC8 ==
    /\ call.fn = "LagrangeInterpol"
    /\ call.after[1] # call.before[1]
    /\ Fresh(call.ret[1])

\* C10: for n >= 3 and every frequency FilonLagrange accumulates (n-1)//2
\* terms; term i has the bounds Time[2i], Time[2i+2] and the coefficient row i,
\* the row stored for samples 2i, 2i+1, 2i+2; consecutive terms share one
\* endpoint and the terms cover Time[0] .. Time[2*((n-1)//2)]; when n is even
\* the last sample is in no term, and no row beyond the fitted ones is read.
ThmC10 ==
    (loc.DFT # NoRef /\ pc # "prange" /\ loc.Time.len >= 3) =>
        LET n == loc.Time.len
            T == Val(loc.Time)
            S == Segments(n)
            D == Val(loc.DFT)
            C == Val(loc.Coeffs)
        IN  /\ pc = "AdmLoop" => \A i \in 0 .. (S - 1) : C[i + 1] = FittedRow(i)
            /\ \A i \in 0 .. (S - 1) : \A row \in {C[i + 1]} :
                   \A k \in 1 .. loc.freq.len :
                       /\ D[k][i + 1].ff = Val(loc.freq)[k]
                       /\ D[k][i + 1].t1 = T[2 * i + 1]
                       /\ D[k][i + 1].t2 = T[2 * i + 3]
                       /\ D[k][i + 1].it = 2 * i
                       /\ D[k][i + 1].ip = i
                       /\ <<D[k][i + 1].a, D[k][i + 1].b, D[k][i + 1].c>> = row
                       /\ D[k][i + 1].ip < S
                       /\ (n % 2 = 0) => D[k][i + 1].it + 2 < n - 1
            /\ \A k \in 1 .. loc.freq.len :
                   /\ Len(D[k]) = S
                   /\ \A i \in 1 .. (S - 1) :
                          D[k][i].t2 = D[k][i + 1].t1 /\ D[k][i].it + 2 = D[k][i + 1].it
                   /\ D[k][1].t1 = T[1]
                   /\ D[k][S].t2 = T[2 * S + 1]

\* Five samples: two terms per frequency, sharing the sample of index 2.
WitC10 ==
    /\ loc.DFT # NoRef
    /\ loc.Time.len = 5
    /\ loc.freq.len >= 1
    /\ Len(Val(loc.DFT)[1]) = 2
    /\ Val(loc.DFT)[1][1].t2 = Val(loc.DFT)[1][2].t1
    /\ Val(loc.DFT)[1][1].ip = 0
    /\ Val(loc.DFT)[1][2].ip = 1

\* C3 as stated: the first grid value is 2*pi/t_max, the last is 2*pi/(3*dt),
\* and the grid is strictly increasing and strictly positive.
CxC3 ==
    glob.freq # NoRef =>
        LET rt == Val(glob.redTime)
            g == Val(glob.freq)
            r == g[1][2]
            dt == RSub(rt[2], rt[1])
        IN  /\ g[1] = Freq(RPow(rt[Len(rt)], r), r)
            /\ g[Len(g)] = Freq(RPow(RMul(Num(3), dt), r), r)
            /\ \A k \in 1 .. Len(g) : FreqPositive(g[k])
            /\ \A k \in 1 .. (Len(g) - 1) : FreqLess(g[k], g[k + 1])

\* Some admittance value is exactly zero.
AdmSingular == glob.Adm # NoRef /\ \E k \in 1 .. glob.Adm.len : AdmIsZero(Val(glob.Adm)[k])

\* C6 as stated: when an admittance value is zero the script stops at the
\* impedance step, and no impedance value that is not finite is produced or
\* written.
CxC6 ==
    /\ AdmSingular => pc \in {"Imp", "raised"} /\ glob.Imp = NoRef
    /\ glob.Imp # NoRef => \A k \in 1 .. glob.Imp.len : Val(glob.Imp)[k].finite
    /\ "Impedance.out" \in DOMAIN files =>
           \A k \in 1 .. Len(files["Impedance.out"]) : files["Impedance.out"][k][2].finite

\* A stage has failed: an exception, fewer than three samples, a segment with
\* coinciding times, a frequency that is not positive, a singular admittance.
StageFailed ==
    \/ exc # "none"
    \/ glob.redTime # NoRef /\ glob.redTime.len < 3
    \/ glob.redTime # NoRef /\
           \E i \in 0 .. (Segments(glob.redTime.len) - 1) :
               ~Distinct3(Triple(Val(glob.redTime), i))
    \/ glob.freq # NoRef /\ \E k \in 1 .. glob.freq.len : ~FreqPositive(Val(glob.freq)[k])
    \/ AdmSingular

\* C7 as stated: in a run in which a stage has failed neither Admittance.out
\* nor Impedance.out is written and 'Done.' is not reached.
CxC7 ==
    StageFailed =>
        /\ "Admittance.out" \notin DOMAIN files
        /\ "Impedance.out" \notin DOMAIN files
        /\ pc # "done"

\* C9: with the iterations of the frequency loop interleaved in any order,
\* iteration k reads and writes only DFT[k], which at every moment holds the
\* terms of its first ip segments, and when all iterations have ended every
\* DFT[k] is the value of the sequential execution.
ThmC9 ==
    loc.DFT # NoRef =>
        LET seq == FilonLagrange(ComplexZeros(loc.freq.len), Val(loc.freq),
                                 Val(loc.Time), Val(loc.Coeffs))
        IN  /\ pc = "prange" =>
                \A k \in 1 .. Len(workers) :
                    /\ Val(loc.DFT)[k] = SubSeq(seq[k], 1, workers[k].ip)
                    /\ workers[k].pc = "write" => workers[k].tmp = Val(loc.DFT)[k]
                    /\ workers[k].pc = "done" => Val(loc.DFT)[k] = seq[k]
            /\ pc # "prange" => Val(loc.DFT) = seq

\* All iterations have ended, with two terms in each of two or more slots.
WitC9 ==
    /\ pc = "AdmLoop"
    /\ call.fn = "FilonLagrange"
    /\ Len(workers) >= 2
    /\ \A k \in 1 .. Len(workers) : workers[k].pc = "done" /\ Len(Val(loc.DFT)[k]) = 2
    /\ Val(loc.DFT)[1] # Val(loc.DFT)[2]
====
